---- MODULE Spec2Model ----
(***************************************************************************)
(* Model of the debate engine: DebateSession (initializeTeams, nextTurn    *)
(* with its line segmenter) and the App that drives it (handleStartSetup,  *)
(* triggerNextTurn, the next-turn / interjection / end-debate handlers).   *)
(*                                                                         *)
(* Strings are sequences of one-character strings.  A Chinese character of *)
(* the source is written as one pinyin atom ("zhu","chi","ren" is the      *)
(* three-character moderator name).                                        *)
(***************************************************************************)
EXTENDS Integers, Sequences, FiniteSets, TLC

VARIABLES
    \* ---- segmentation pass of nextTurn, run line by line ----
    segText,        \* the raw text (response.text || "")
    segLines,       \* text.split('\n')
    segIdx,         \* number of lines already consumed by the for loop
    segState,       \* [segments, currentSpeaker, currentType, currentContent]
    segPc,          \* "loop" | "flushed" | "returned"
    segResult,      \* the array nextTurn returns
    \* ---- DebateSession objects, indexed by construction order ----
    nSessions,      \* number of DebateSession objects constructed
    chat,           \* chat[s]: 0 is null, otherwise the id of the Chat handle
    propTeam,       \* propTeam[s]: Null or a Team
    oppTeam,        \* oppTeam[s]: Null or a Team
    chatsCreated,   \* number of ai.chats.create calls so far
    initCall,       \* initCall[s]: the initializeTeams call on session s
    nTurns,         \* number of nextTurn calls made so far
    turn,           \* turn[t]: the t-th nextTurn call and its playback
    \* ---- App ----
    status,         \* useState<DebateStatus>
    topic,          \* useState('')
    uiPropTeam,     \* useState<Team | null>: the App's propTeam
    uiOppTeam,      \* useState<Team | null>: the App's oppTeam
    messages,       \* useState<Message[]>
    currentSpeaker, \* useState<string | null>
    error,          \* useState<string | null>
    isLoadingTurn,  \* useState(false)
    sessionRef,     \* sessionRef.current: 0 is null, otherwise a session
    setup,          \* the handleStartSetup invocation that is awaiting
    \* ---- speaker resolution of one segment, on its own ----
    resLabel,       \* segment.speaker
    resProp,        \* session.propTeam
    resOpp,         \* session.oppTeam
    resPc,          \* "start" | "done"
    resOut          \* what the resolution gave

segVars == <<segText, segLines, segIdx, segState, segPc, segResult>>
sessVars == <<nSessions, chat, propTeam, oppTeam, chatsCreated, initCall, nTurns, turn>>
appVars == <<status, topic, uiPropTeam, uiOppTeam, messages, currentSpeaker, error,
             isLoadingTurn, sessionRef, setup>>
resVars == <<resLabel, resProp, resOpp, resPc, resOut>>
vars == <<segVars, sessVars, appVars, resVars>>

-----------------------------------------------------------------------------
(* Bounds *)
MaxLines == 3
MaxMembers == 2
MaxSessions == 2
MaxTurns == 3

-----------------------------------------------------------------------------
(* Strings *)

NL == "\n"

IsSpace(c) == c \in {" ", "\t", NL}

UpperToLower ==
    [c \in {"M", "O", "D", "E", "R", "A", "T", "S", "P", "K", "B"} |->
        CASE c = "M" -> "m" [] c = "O" -> "o" [] c = "D" -> "d"
          [] c = "E" -> "e" [] c = "R" -> "r" [] c = "A" -> "a"
          [] c = "T" -> "t" [] c = "S" -> "s" [] c = "P" -> "p"
          [] c = "K" -> "k" [] c = "B" -> "b"]

LowerChar(c) == IF c \in DOMAIN UpperToLower THEN UpperToLower[c] ELSE c

toLowerCase(s) == [i \in 1..Len(s) |-> LowerChar(s[i])]

RECURSIVE trimStart(_)
trimStart(s) ==
    IF s = <<>> THEN <<>>
    ELSE IF IsSpace(Head(s)) THEN trimStart(Tail(s)) ELSE s

RECURSIVE trimEnd(_)
trimEnd(s) ==
    IF s = <<>> THEN <<>>
    ELSE IF IsSpace(s[Len(s)]) THEN trimEnd(SubSeq(s, 1, Len(s) - 1)) ELSE s

trim(s) == trimEnd(trimStart(s))

RECURSIVE join(_)
join(ls) ==
    IF ls = <<>> THEN <<>>
    ELSE IF Len(ls) = 1 THEN ls[1]
    ELSE ls[1] \o <<NL>> \o join(Tail(ls))

RECURSIVE split(_)
split(s) ==
    IF \A i \in 1..Len(s) : s[i] # NL THEN <<s>>
    ELSE LET k == CHOOSE i \in 1..Len(s) :
                      s[i] = NL /\ \A j \in 1..(i - 1) : s[j] # NL
         IN  <<SubSeq(s, 1, k - 1)>> \o split(SubSeq(s, k + 1, Len(s)))

-----------------------------------------------------------------------------
(* Segmenter of DebateSession.nextTurn *)

ModeratorName == <<"zhu", "chi", "ren">>
SystemName    == <<"xi", "tong">>
ErrorPrefix   == <<"sheng", "cheng", "cuo", "wu", ":", " ">>

ModTag == <<"M", "O", "D", "E", "R", "A", "T", "O", "R", ":">>
SpkTag == <<"S", "P", "E", "A", "K", "E", "R", ":">>

\* faulty variant: the regex is not anchored, whitespace may precede the tag
TagMatchAfterWhitespace(line, tag) ==
    /\ Len(trimStart(line)) >= Len(tag)
    /\ toLowerCase(SubSeq(trimStart(line), 1, Len(tag))) = toLowerCase(tag)

\* line.match(/^TAG\s*(.*)/i) succeeds
TagMatch(line, tag) ==
    /\ Len(line) >= Len(tag)
    /\ toLowerCase(SubSeq(line, 1, Len(tag))) = toLowerCase(tag)

\* capture group 1 of the match: the greedy \s* eats the leading whitespace
TagCapture(line, tag) == trimStart(SubSeq(line, Len(tag) + 1, Len(line)))

modMatch(line) == TagMatch(line, ModTag)
spkMatch(line) == TagMatch(line, SpkTag)

SegStart ==
    [segments       |-> <<>>,
     currentSpeaker |-> ModeratorName,
     currentType    |-> "moderator",
     currentContent |-> <<>>]

\* faulty variant: the segment is put in front of the earlier ones
flushPrepending(st) ==
    IF Len(st.currentContent) > 0
    THEN [st EXCEPT
            !.segments = <<[speaker |-> st.currentSpeaker,
                            content |-> trim(join(st.currentContent)),
                            type    |-> st.currentType]>> \o @,
            !.currentContent = <<>>]
    ELSE st

\* faulty variant: the joined content is not trimmed
flushWithoutTrim(st) ==
    IF Len(st.currentContent) > 0
    THEN [st EXCEPT
            !.segments = Append(@, [speaker |-> st.currentSpeaker,
                                    content |-> join(st.currentContent),
                                    type    |-> st.currentType]),
            !.currentContent = <<>>]
    ELSE st

flush(st) ==
    IF Len(st.currentContent) > 0
    THEN [st EXCEPT
            !.segments = Append(@, [speaker |-> st.currentSpeaker,
                                    content |-> trim(join(st.currentContent)),
                                    type    |-> st.currentType]),
            !.currentContent = <<>>]
    ELSE st

\* faulty variant: the captured speaker name is not trimmed
ProcessLineSpeakerUntrimmed(st, line) ==
    IF modMatch(line)
    THEN LET inl == trim(TagCapture(line, ModTag))
         IN  [flush(st) EXCEPT
                !.currentSpeaker = ModeratorName,
                !.currentType    = "moderator",
                !.currentContent = IF inl # <<>> THEN <<inl>> ELSE <<>>]
    ELSE IF spkMatch(line)
    THEN [flush(st) EXCEPT
            !.currentSpeaker = TagCapture(line, SpkTag),
            !.currentType    = "debater"]
    ELSE [st EXCEPT !.currentContent = Append(@, line)]

\* faulty variant: the MODERATOR: branch sets the type of the SPEAKER: branch
ProcessLineModeratorAsDebater(st, line) ==
    IF modMatch(line)
    THEN LET inl == trim(TagCapture(line, ModTag))
         IN  [flush(st) EXCEPT
                !.currentSpeaker = ModeratorName,
                !.currentType    = "debater",
                !.currentContent = IF inl # <<>> THEN <<inl>> ELSE <<>>]
    ELSE IF spkMatch(line)
    THEN [flush(st) EXCEPT
            !.currentSpeaker = trim(TagCapture(line, SpkTag)),
            !.currentType    = "debater"]
    ELSE [st EXCEPT !.currentContent = Append(@, line)]

\* faulty variant: a content line puts the speaker back to the default
ProcessLineContentResetsSpeaker(st, line) ==
    IF modMatch(line)
    THEN LET inl == trim(TagCapture(line, ModTag))
         IN  [flush(st) EXCEPT
                !.currentSpeaker = ModeratorName,
                !.currentType    = "moderator",
                !.currentContent = IF inl # <<>> THEN <<inl>> ELSE <<>>]
    ELSE IF spkMatch(line)
    THEN [flush(st) EXCEPT
            !.currentSpeaker = trim(TagCapture(line, SpkTag)),
            !.currentType    = "debater"]
    ELSE [st EXCEPT !.currentContent = Append(@, line),
                    !.currentSpeaker = ModeratorName,
                    !.currentType    = "moderator"]

\* faulty variant: the inline text of a MODERATOR: line is pushed before the
\* flush, so it ends the previous segment
ProcessLineInlineBeforeFlush(st, line) ==
    IF modMatch(line)
    THEN LET inl == trim(TagCapture(line, ModTag))
             pushed == IF inl # <<>>
                       THEN [st EXCEPT !.currentContent = Append(@, inl)]
                       ELSE st
         IN  [flush(pushed) EXCEPT
                !.currentSpeaker = ModeratorName,
                !.currentType    = "moderator"]
    ELSE IF spkMatch(line)
    THEN [flush(st) EXCEPT
            !.currentSpeaker = trim(TagCapture(line, SpkTag)),
            !.currentType    = "debater"]
    ELSE [st EXCEPT !.currentContent = Append(@, line)]

ProcessLine(st, line) ==
    IF modMatch(line)
    THEN LET inl == trim(TagCapture(line, ModTag))
         IN  [flush(st) EXCEPT
                !.currentSpeaker = ModeratorName,
                !.currentType    = "moderator",
                !.currentContent = IF inl # <<>> THEN <<inl>> ELSE <<>>]
    ELSE IF spkMatch(line)
    THEN [flush(st) EXCEPT
            !.currentSpeaker = trim(TagCapture(line, SpkTag)),
            !.currentType    = "debater"]
    ELSE [st EXCEPT !.currentContent = Append(@, line)]

RECURSIVE ProcessLines(_, _)
ProcessLines(st, ls) ==
    IF ls = <<>> THEN st ELSE ProcessLines(ProcessLine(st, Head(ls)), Tail(ls))

\* the segments array after the for loop and the trailing flush()
SegmentationPass(text) == flush(ProcessLines(SegStart, split(text))).segments

\* faulty variant: the fallback trims the text
FallbackSegmentTrimmed(text) ==
    [speaker |-> ModeratorName, content |-> trim(text), type |-> "moderator"]

FallbackSegment(text) ==
    [speaker |-> ModeratorName, content |-> text, type |-> "moderator"]

\* what the try block of nextTurn returns for response text `text`
TurnSegments(text) ==
    LET segs == SegmentationPass(text)
    IN  IF Len(segs) = 0 THEN <<FallbackSegment(text)>> ELSE segs

-----------------------------------------------------------------------------
(* Raw texts fed to the segmenter: every text of 1..MaxLines lines, each   *)
(* line a tag prefix (or none, or a near-miss of one) followed by a body.  *)

LinePrefixes ==
    { <<>>,
      ModTag,
      toLowerCase(ModTag),
      SpkTag,
      <<" ">> \o SpkTag,                      \* leading whitespace
      SubSeq(ModTag, 1, Len(ModTag) - 1) }    \* colon missing

LineBodies == { <<>>, <<" ">>, <<" ", "A", " ">>, <<"b">> }

LineSet == { p \o b : p \in LinePrefixes, b \in LineBodies }

RECURSIVE TextsOfLines(_)
TextsOfLines(n) ==
    IF n = 1 THEN LineSet
    ELSE LET shorter == TextsOfLines(n - 1)
         IN  shorter \cup { t \o <<NL>> \o l : t \in { u \in shorter : Len(split(u)) = n - 1 }, l \in LineSet }

RawTexts == TextsOfLines(MaxLines)

-----------------------------------------------------------------------------
(* JavaScript values, as far as initializeTeams looks at them.  An object  *)
(* is a record whose absent properties read as Undefined.                  *)

Undefined == [t |-> "undefined"]
JNull     == [t |-> "null"]
JNum(n)   == [t |-> "num", n |-> n]
JStr(str) == [t |-> "str", s |-> str]
JArr(xs)  == [t |-> "arr", items |-> xs]
EmptyObj  == [t |-> "obj"]

IsNullish(v) == v.t \in {"undefined", "null"}

\* v.field, for a v that is not null or undefined
Get(v, field) == IF v.t = "obj" /\ field \in DOMAIN v THEN v[field] ELSE Undefined

Truthy(v) ==
    CASE v.t \in {"undefined", "null"} -> FALSE
      [] v.t = "num" -> v.n # 0
      [] v.t = "str" -> v.s # <<>>
      [] OTHER -> TRUE

OrElse(v, d) == IF Truthy(v) THEN v ELSE d

-----------------------------------------------------------------------------
(* DebateSession.initializeTeams *)

Null == [t |-> "null"]

\* A fixed message of the source is written as one atom.
NoResponseError == <<"No response from AI">>
ParseError      == <<"Failed to parse debate teams configuration.">>
TypeError       == <<"TypeError">>
ChatNotInitializedError == <<"Chat not initialized">>

PropPlaceholder == <<"zheng", "fang", "bian", "shou", " ", "1">>
OppPlaceholder  == <<"fan", "fang", "bian", "shou", " ", "1">>
PropDefaultName == <<"zheng", "fang">>
OppDefaultName  == <<"fan", "fang">>

\* response.text of a resolved sendMessage: a string, or undefined
ResponseText(resp) ==
    CASE resp.kind = "undefinedText" -> Undefined
      [] resp.kind = "text" -> JStr(resp.text)
      [] resp.kind = "json" -> JStr(<<"{", "}">>)

\* faulty variant: a parse that accepts objects only
JSONparseObjectsOnly(resp) ==
    IF resp.kind = "json" /\ resp.data.t = "obj" THEN [ok |-> TRUE, data |-> resp.data]
    ELSE [ok |-> FALSE]

\* JSON.parse(text): a text is the serialisation of a value, or it is not JSON
JSONparse(resp) ==
    IF resp.kind = "json" THEN [ok |-> TRUE, data |-> resp.data]
    ELSE [ok |-> FALSE]

\* faulty variant: the push of the placeholder is missing
MembersWithoutPlaceholder(sideData, placeholder) ==
    LET m == Get(sideData, "members")
    IN  IF m.t = "arr" THEN m.items ELSE <<>>

\* Array.isArray(x.members) ? x.members : [], then the push of a placeholder
MembersOrPlaceholder(sideData, placeholder) ==
    LET m  == Get(sideData, "members")
        ms == IF m.t = "arr" THEN m.items ELSE <<>>
    IN  IF Len(ms) = 0
        THEN <<[t |-> "obj", name |-> JStr(placeholder)]>>
        ELSE ms

\* members.map(...) reads m.name of every member: a null member throws
MapThrows(ms) == \E i \in 1..Len(ms) : IsNullish(ms[i])

MakeTeam(side, idPrefix, sideData, ms, defaultName) ==
    [side    |-> side,
     name    |-> OrElse(Get(sideData, "name"), JStr(defaultName)),
     members |-> [i \in 1..Len(ms) |->
                    [name |-> Get(ms[i], "name"),
                     id   |-> <<idPrefix, i - 1>>,
                     side |-> side]]]

\* The part of initializeTeams after `await this.chat.sendMessage(...)`:
\* the outcome of the call and the teams it leaves on the session.
InitializeTeamsOutcome(resp, oldProp, oldOpp) ==
    LET fail(e, p, o) == [threw |-> TRUE, error |-> e, propTeam |-> p, oppTeam |-> o]
    IN
    IF resp.kind = "reject" THEN fail(resp.message, oldProp, oldOpp)
    ELSE IF ~Truthy(ResponseText(resp)) THEN fail(NoResponseError, oldProp, oldOpp)
    ELSE IF ~JSONparse(resp).ok THEN fail(ParseError, oldProp, oldOpp)
    ELSE
    LET data == JSONparse(resp).data IN
    IF IsNullish(data) THEN fail(TypeError, oldProp, oldOpp)
    ELSE
    LET propData    == OrElse(Get(data, "proposition"), EmptyObj)
        oppData     == OrElse(Get(data, "opposition"), EmptyObj)
        propMembers == MembersOrPlaceholder(propData, PropPlaceholder)
        oppMembers  == MembersOrPlaceholder(oppData, OppPlaceholder)
        newProp     == MakeTeam("proposition", "prop", propData, propMembers, PropDefaultName)
        newOpp      == MakeTeam("opposition", "opp", oppData, oppMembers, OppDefaultName)
    IN
    IF MapThrows(propMembers) THEN fail(TypeError, oldProp, oldOpp)
    ELSE IF MapThrows(oppMembers) THEN fail(TypeError, newProp, oldOpp)
    ELSE [threw |-> FALSE, error |-> "", propTeam |-> newProp, oppTeam |-> newOpp]

-----------------------------------------------------------------------------
(* DebateSession.nextTurn *)

DefaultPrompt == <<"qing", "ji", "xu">>

\* faulty variant: the catch block reports a fixed text, without e.message
NextTurnResultWithoutMessage(resp) ==
    IF resp.kind = "reject"
    THEN <<[speaker |-> SystemName, content |-> ErrorPrefix, type |-> "moderator"]>>
    ELSE LET rt   == ResponseText(resp)
             text == IF Truthy(rt) THEN rt.s ELSE <<>>
         IN  TurnSegments(text)

\* what nextTurn returns once sendMessage has settled with `resp`
NextTurnResult(resp) ==
    IF resp.kind = "reject"
    THEN <<[speaker |-> SystemName,
            content |-> ErrorPrefix \o resp.message,
            type    |-> "moderator"]>>
    ELSE LET rt   == ResponseText(resp)
             text == IF Truthy(rt) THEN rt.s ELSE <<>>
         IN  TurnSegments(text)

NoTurn ==
    [pc |-> "none", session |-> 0, userInput |-> Undefined, message |-> <<>>,
     sentOn |-> 0, resp |-> Undefined, error |-> <<>>, segments |-> <<>>, idx |-> 0]

\* faulty variant: the `if (!this.chat)` guard is missing, and the send on
\* the absent chat is what fails
NextTurnEntryUnguarded(s, userInput) ==
    [NoTurn EXCEPT !.pc = IF chat[s] = 0 THEN "threw" ELSE "awaiting",
                   !.session = s, !.userInput = userInput,
                   !.error = IF chat[s] = 0 THEN TypeError ELSE <<>>,
                   !.message = IF Truthy(userInput) THEN userInput.s ELSE DefaultPrompt,
                   !.sentOn = chat[s]]

\* faulty variant: every turn is sent on a chat of its own
NextTurnEntryOnFreshChat(s, userInput) ==
    IF chat[s] = 0
    THEN [NoTurn EXCEPT !.pc = "threw", !.session = s, !.userInput = userInput,
                        !.error = ChatNotInitializedError]
    ELSE [NoTurn EXCEPT !.pc = "awaiting", !.session = s, !.userInput = userInput,
                        !.message = IF Truthy(userInput) THEN userInput.s ELSE DefaultPrompt,
                        !.sentOn = chatsCreated + nTurns + 1]

\* nextTurn up to its first await: the guard, the message, the send
NextTurnEntry(s, userInput) ==
    IF chat[s] = 0
    THEN [NoTurn EXCEPT !.pc = "threw", !.session = s, !.userInput = userInput,
                        !.error = ChatNotInitializedError]
    ELSE [NoTurn EXCEPT !.pc = "awaiting", !.session = s, !.userInput = userInput,
                        !.message = IF Truthy(userInput) THEN userInput.s ELSE DefaultPrompt,
                        !.sentOn = chat[s]]

-----------------------------------------------------------------------------
(* The DebateSession object: construction and the two methods, each split  *)
(* at its await.                                                           *)

NoCall == [pc |-> "none", resp |-> Undefined, error |-> <<>>]
AwaitingCall == [NoCall EXCEPT !.pc = "awaiting"]

SessIdle ==
    /\ nSessions = 0
    /\ chat = [s \in 1..MaxSessions |-> 0]
    /\ propTeam = [s \in 1..MaxSessions |-> Null]
    /\ oppTeam = [s \in 1..MaxSessions |-> Null]
    /\ chatsCreated = 0
    /\ initCall = [s \in 1..MaxSessions |-> NoCall]
    /\ nTurns = 0
    /\ turn = [t \in 1..MaxTurns |-> NoTurn]

\* new DebateSession(topic)
Construct ==
    /\ nSessions < MaxSessions
    /\ nSessions' = nSessions + 1

\* initializeTeams up to `await this.chat.sendMessage(...)`
InitializeTeamsCall(s) ==
    /\ chatsCreated' = chatsCreated + 1
    /\ chat' = [chat EXCEPT ![s] = chatsCreated + 1]
    /\ initCall' = [initCall EXCEPT ![s] = AwaitingCall]

\* initializeTeams from the settled sendMessage to its return or throw
InitializeTeamsSettle(s, resp) ==
    /\ initCall[s].pc = "awaiting"
    /\ \E out \in { InitializeTeamsOutcome(resp, propTeam[s], oppTeam[s]) } :
        /\ propTeam' = [propTeam EXCEPT ![s] = out.propTeam]
        /\ oppTeam' = [oppTeam EXCEPT ![s] = out.oppTeam]
        /\ initCall' = [initCall EXCEPT ![s] =
                           [pc |-> IF out.threw THEN "threw" ELSE "returned",
                            resp |-> resp,
                            error |-> out.error]]

\* nextTurn up to `await this.chat.sendMessage(...)`, or its throw
NextTurnCall(s, userInput) ==
    /\ nTurns < MaxTurns
    /\ nTurns' = nTurns + 1
    /\ turn' = [turn EXCEPT ![nTurns + 1] = NextTurnEntry(s, userInput)]

\* nextTurn from the settled sendMessage to its return
NextTurnSettle(t, resp) ==
    /\ turn[t].pc = "awaiting"
    /\ turn' = [turn EXCEPT ![t].pc = "returned",
                            ![t].resp = resp,
                            ![t].segments = NextTurnResult(resp)]

-----------------------------------------------------------------------------
(* Responses of the model backend *)

Reject(m) == [kind |-> "reject", message |-> m]
UndefinedText == [kind |-> "undefinedText"]
Text(x) == [kind |-> "text", text |-> x]
Json(d) == [kind |-> "json", data |-> d]

BackendErrors == { <<"4", "2", "9">> }

MemberNames == { <<"A">>, <<"B", "o">> }
MemberValues == { [t |-> "obj", name |-> JStr(n)] : n \in MemberNames } \cup { EmptyObj, JNull }
MemberLists == UNION { [1..n -> MemberValues] : n \in 0..MaxMembers }
MembersFieldValues == { Undefined, JNum(1) } \cup { JArr(l) : l \in MemberLists }
SideValues ==
    { Undefined, JNull, JNum(1) } \cup
    { [t |-> "obj", name |-> n, members |-> m] :
        n \in { Undefined, JStr(<<"T">>) }, m \in MembersFieldValues }
DataValues ==
    { JNull, JNum(0), JArr(<<>>) } \cup
    { [t |-> "obj", proposition |-> p, opposition |-> o] : p \in SideValues, o \in SideValues }

SetupResponses ==
    { Reject(m) : m \in BackendErrors } \cup
    { UndefinedText, Text(<<>>), Text(<<"o", "o", "p", "s">>) } \cup
    { Json(d) : d \in DataValues }

-----------------------------------------------------------------------------
(* initializeTeams on a fresh session, over every setup response *)

TeamsInit ==
    /\ nSessions = 1
    /\ chat = [s \in 1..MaxSessions |-> IF s = 1 THEN 1 ELSE 0]
    /\ propTeam = [s \in 1..MaxSessions |-> Null]
    /\ oppTeam = [s \in 1..MaxSessions |-> Null]
    /\ chatsCreated = 1
    /\ initCall = [s \in 1..MaxSessions |->
                      IF s = 1 THEN AwaitingCall ELSE NoCall]
    /\ nTurns = 0
    /\ turn = [t \in 1..MaxTurns |-> NoTurn]

TeamsSettle ==
    /\ initCall[1].pc = "awaiting"
    /\ \E resp \in SetupResponses : InitializeTeamsSettle(1, resp)
    /\ UNCHANGED <<nSessions, chat, chatsCreated, nTurns, turn>>
    /\ UNCHANGED <<segVars, appVars, resVars>>

-----------------------------------------------------------------------------
(* One DebateSession driven by a caller that calls its methods in any      *)
(* order and with any overlap.                                             *)

GoodRoster ==
    [t |-> "obj",
     proposition |-> [t |-> "obj", name |-> JStr(<<"T">>),
                      members |-> JArr(<<[t |-> "obj", name |-> JStr(<<"A">>)]>>)],
     opposition  |-> [t |-> "obj", name |-> Undefined,
                      members |-> JArr(<<[t |-> "obj", name |-> JStr(<<"B", "o">>)]>>)]]

HalfRoster == [GoodRoster EXCEPT !.opposition.members = JArr(<<JNull>>)]

CallerSetupResponses ==
    { Reject(m) : m \in BackendErrors } \cup
    { UndefinedText, Text(<<>>), Text(<<"o", "o", "p", "s">>),
      Json(GoodRoster), Json(HalfRoster), Json([t |-> "obj"]) }

TurnTexts ==
    { <<>>,
      ModTag \o <<" ", "b", NL>> \o SpkTag \o <<"A", NL, "b">> }

TurnResponses ==
    { Reject(m) : m \in BackendErrors } \cup { UndefinedText } \cup
    { Text(x) : x \in TurnTexts }

UserInputs == { Undefined, JStr(<<>>), JStr(<<"h", "i">>) }

CallerInit ==
    /\ nSessions = 1
    /\ chat = [s \in 1..MaxSessions |-> 0]
    /\ propTeam = [s \in 1..MaxSessions |-> Null]
    /\ oppTeam = [s \in 1..MaxSessions |-> Null]
    /\ chatsCreated = 0
    /\ initCall = [s \in 1..MaxSessions |-> NoCall]
    /\ nTurns = 0
    /\ turn = [t \in 1..MaxTurns |-> NoTurn]

CallerInitializeTeams ==
    /\ initCall[1].pc = "none"
    /\ InitializeTeamsCall(1)
    /\ UNCHANGED <<nSessions, propTeam, oppTeam, nTurns, turn>>
    /\ UNCHANGED <<segVars, appVars, resVars>>

CallerSetupSettles ==
    /\ initCall[1].pc = "awaiting"
    /\ \E resp \in CallerSetupResponses : InitializeTeamsSettle(1, resp)
    /\ UNCHANGED <<nSessions, chat, chatsCreated, nTurns, turn>>
    /\ UNCHANGED <<segVars, appVars, resVars>>

CallerNextTurn ==
    /\ \E u \in UserInputs : NextTurnCall(1, u)
    /\ UNCHANGED <<nSessions, chat, propTeam, oppTeam, chatsCreated, initCall>>
    /\ UNCHANGED <<segVars, appVars, resVars>>

CallerTurnSettles ==
    /\ \E t \in 1..MaxTurns, resp \in TurnResponses : NextTurnSettle(t, resp)
    /\ UNCHANGED <<nSessions, chat, propTeam, oppTeam, chatsCreated, initCall, nTurns>>
    /\ UNCHANGED <<segVars, appVars, resVars>>

-----------------------------------------------------------------------------
(* Speaker resolution in triggerNextTurn *)

\* s.toLowerCase().replace(/\s/g, '')
Normalize(str) ==
    LET low == toLowerCase(str)
    IN  SelectSeq(low, LAMBDA c : ~IsSpace(c))

\* a.includes(b)
includes(a, b) ==
    \E i \in 0..(Len(a) - Len(b)) : SubSeq(a, i + 1, i + Len(b)) = b

Qualifies(m, n) ==
    LET mn == Normalize(m.name.s)
    IN  includes(mn, n) \/ includes(n, mn)

\* team?.members.find(...): the index of the first qualifying member (0 if
\* none); the callback throws on a member whose name is not a string, if
\* the search gets that far
FindMember(team, n) ==
    IF team = Null THEN [threw |-> FALSE, idx |-> 0]
    ELSE LET ms   == team.members
             bad  == { i \in 1..Len(ms) : ms[i].name.t # "str" }
             hits == { i \in 1..Len(ms) : ms[i].name.t = "str" /\ Qualifies(ms[i], n) }
             stop == bad \cup hits
             first == CHOOSE i \in stop : \A j \in stop : i <= j
         IN  IF stop = {} THEN [threw |-> FALSE, idx |-> 0]
             ELSE IF first \in bad THEN [threw |-> TRUE, idx |-> 0]
             ELSE [threw |-> FALSE, idx |-> first]

\* faulty variant: the message keeps the label the model wrote
ResolveKeepingLabel(speaker, prop, opp) ==
    LET n  == Normalize(speaker)
        pm == FindMember(prop, n)
        om == FindMember(opp, n)
    IN  IF pm.threw \/ om.threw
        THEN [threw |-> TRUE]
        ELSE IF pm.idx # 0
        THEN [threw |-> FALSE, side |-> "proposition",
              speakerName |-> JStr(speaker),
              current |-> prop.members[pm.idx].name]
        ELSE IF om.idx # 0
        THEN [threw |-> FALSE, side |-> "opposition",
              speakerName |-> JStr(speaker),
              current |-> opp.members[om.idx].name]
        ELSE [threw |-> FALSE, side |-> "moderator",
              speakerName |-> JStr(speaker), current |-> Null]

\* faulty variant: the opposition roster is searched first
ResolveOppositionFirst(speaker, prop, opp) ==
    LET n  == Normalize(speaker)
        pm == FindMember(prop, n)
        om == FindMember(opp, n)
    IN  IF pm.threw \/ om.threw
        THEN [threw |-> TRUE]
        ELSE IF om.idx # 0
        THEN [threw |-> FALSE, side |-> "opposition",
              speakerName |-> opp.members[om.idx].name,
              current |-> opp.members[om.idx].name]
        ELSE IF pm.idx # 0
        THEN [threw |-> FALSE, side |-> "proposition",
              speakerName |-> prop.members[pm.idx].name,
              current |-> prop.members[pm.idx].name]
        ELSE [threw |-> FALSE, side |-> "moderator",
              speakerName |-> JStr(speaker), current |-> Null]

\* side, displayed name and highlighted speaker of a segment
Resolve(speaker, prop, opp) ==
    LET n  == Normalize(speaker)
        pm == FindMember(prop, n)
        om == FindMember(opp, n)
    IN  IF pm.threw \/ om.threw
        THEN [threw |-> TRUE]
        ELSE IF pm.idx # 0
        THEN [threw |-> FALSE, side |-> "proposition",
              speakerName |-> prop.members[pm.idx].name,
              current |-> prop.members[pm.idx].name]
        ELSE IF om.idx # 0
        THEN [threw |-> FALSE, side |-> "opposition",
              speakerName |-> opp.members[om.idx].name,
              current |-> opp.members[om.idx].name]
        ELSE [threw |-> FALSE, side |-> "moderator",
              speakerName |-> JStr(speaker), current |-> Null]

-----------------------------------------------------------------------------
(* The App *)

SetupFailedError == JStr(<<"wu fa chu shi hua">>)
TurnFailedError  == JStr(<<"sheng cheng hui he shi bai">>)
UserName         == JStr(<<"ni">>)

NoSetup == [pc |-> "none", session |-> 0, isLoadingTurn |-> FALSE]

AppIdle ==
    /\ status = "idle"
    /\ topic = <<>>
    /\ uiPropTeam = Null
    /\ uiOppTeam = Null
    /\ messages = <<>>
    /\ currentSpeaker = Null
    /\ error = Null
    /\ isLoadingTurn = FALSE
    /\ sessionRef = 0
    /\ setup = NoSetup

Topics == { <<>>, <<" ">>, <<"t">> }
Interjections == { JStr(<<>>), JStr(<<"h", "i">>) }

UserMessage(text, t) ==
    [role |-> "user", content |-> text, speakerName |-> UserName,
     speakerSide |-> "none", turn |-> t, seg |-> 0]

ModelMessage(segment, r, t, k) ==
    [role |-> "model", content |-> segment.content, speakerName |-> r.speakerName,
     speakerSide |-> r.side, turn |-> t, seg |-> k]

\* triggerNextTurn up to `await session.nextTurn(...)`; `closure` is the
\* isLoadingTurn of the render whose triggerNextTurn is being called
TriggerNextTurn(s, closure, userInterjection) ==
    IF closure
    THEN UNCHANGED <<isLoadingTurn, messages, error, nTurns, turn>>
    ELSE LET t     == nTurns + 1
             entry == NextTurnEntry(s, userInterjection)
         IN  /\ nTurns' = t
             /\ messages' = IF Truthy(userInterjection)
                            THEN Append(messages, UserMessage(userInterjection.s, t))
                            ELSE messages
             /\ IF entry.pc = "threw"
                THEN /\ turn' = [turn EXCEPT ![t] = [entry EXCEPT !.pc = "done"]]
                     /\ error' = TurnFailedError
                     /\ isLoadingTurn' = FALSE
                ELSE /\ turn' = [turn EXCEPT ![t] = entry]
                     /\ isLoadingTurn' = TRUE
                     /\ UNCHANGED error

\* the end of triggerNextTurn: the loop is over, then the finally block
FinishTurn(t, tr) ==
    /\ currentSpeaker' = Null
    /\ isLoadingTurn' = FALSE
    /\ turn' = [turn EXCEPT ![t] = [tr EXCEPT !.pc = "done"]]
    /\ UNCHANGED <<messages, error>>

\* faulty variant: isLoadingTurn is reset at the end of the try block, not
\* in a finally block, so a throw of the resolver leaves it set
DeliverSegmentWithoutFinally(t, tr) ==
    LET k   == tr.idx + 1
        seg == tr.segments[k]
    IN  \E r \in { Resolve(seg.speaker, propTeam[tr.session], oppTeam[tr.session]) } :
        IF r.threw
        THEN /\ error' = TurnFailedError
             /\ turn' = [turn EXCEPT ![t] = [tr EXCEPT !.pc = "done", !.error = TypeError]]
             /\ UNCHANGED <<messages, currentSpeaker, isLoadingTurn>>
        ELSE /\ currentSpeaker' = r.current
             /\ messages' = Append(messages, ModelMessage(seg, r, t, k))
             /\ turn' = [turn EXCEPT ![t] = [tr EXCEPT !.pc = "playing", !.idx = k]]
             /\ UNCHANGED <<error, isLoadingTurn>>

\* one iteration of `for (const segment of segments)` up to its await; a
\* throw of the resolver goes to the catch and the finally block
DeliverSegment(t, tr) ==
    LET k   == tr.idx + 1
        seg == tr.segments[k]
    IN  \E r \in { Resolve(seg.speaker, propTeam[tr.session], oppTeam[tr.session]) } :
        IF r.threw
        THEN /\ error' = TurnFailedError
             /\ isLoadingTurn' = FALSE
             /\ turn' = [turn EXCEPT ![t] = [tr EXCEPT !.pc = "done", !.error = TypeError]]
             /\ UNCHANGED <<messages, currentSpeaker>>
        ELSE /\ currentSpeaker' = r.current
             /\ messages' = Append(messages, ModelMessage(seg, r, t, k))
             /\ turn' = [turn EXCEPT ![t] = [tr EXCEPT !.pc = "playing", !.idx = k]]
             /\ UNCHANGED <<error, isLoadingTurn>>

ContinueTurn(t, tr) ==
    IF tr.idx < Len(tr.segments) THEN DeliverSegment(t, tr) ELSE FinishTurn(t, tr)

\* onChange of the topic input
SetTopic ==
    /\ status = "idle"
    /\ \E tp \in Topics : tp # topic /\ topic' = tp
    /\ UNCHANGED <<sessVars, status, uiPropTeam, uiOppTeam, messages, currentSpeaker,
                   error, isLoadingTurn, sessionRef, setup>>
    /\ UNCHANGED <<segVars, resVars>>

\* handleStartSetup up to `await session.initializeTeams()`
handleStartSetup ==
    /\ status = "idle"
    /\ trim(topic) # <<>>
    /\ nSessions < MaxSessions
    /\ nTurns < MaxTurns
    /\ status' = "setting_up"
    /\ error' = Null
    /\ messages' = <<>>
    /\ isLoadingTurn' = FALSE
    /\ Construct
    /\ sessionRef' = nSessions + 1
    /\ InitializeTeamsCall(nSessions + 1)
    /\ setup' = [pc |-> "awaiting", session |-> nSessions + 1,
                 isLoadingTurn |-> isLoadingTurn]
    /\ UNCHANGED <<propTeam, oppTeam, nTurns, turn, topic, uiPropTeam, uiOppTeam,
                   currentSpeaker>>
    /\ UNCHANGED <<segVars, resVars>>

\* faulty variant: the debate is started whether or not initializeTeams threw
SetupSettlesIgnoringFailure(resp) ==
    LET s == setup.session
    IN  /\ setup.pc = "awaiting"
        /\ InitializeTeamsSettle(s, resp)
        /\ setup' = NoSetup
        /\ uiPropTeam' = propTeam'[s]
        /\ uiOppTeam' = oppTeam'[s]
        /\ status' = "ongoing"
        /\ TriggerNextTurn(s, setup.isLoadingTurn, Undefined)
        /\ UNCHANGED <<nSessions, chat, chatsCreated, topic, currentSpeaker, sessionRef>>

\* handleStartSetup after initializeTeams has settled
SetupSettles(resp) ==
    LET s == setup.session
    IN  /\ setup.pc = "awaiting"
        /\ InitializeTeamsSettle(s, resp)
        /\ setup' = NoSetup
        /\ IF initCall'[s].pc = "threw"
           THEN /\ error' = SetupFailedError
                /\ status' = "idle"
                /\ UNCHANGED <<uiPropTeam, uiOppTeam, isLoadingTurn, messages, nTurns, turn>>
           ELSE /\ uiPropTeam' = propTeam'[s]
                /\ uiOppTeam' = oppTeam'[s]
                /\ status' = "ongoing"
                /\ TriggerNextTurn(s, setup.isLoadingTurn, Undefined)
        /\ UNCHANGED <<nSessions, chat, chatsCreated, topic, currentSpeaker, sessionRef>>

\* faulty variant: the next-turn button is there in every status
handleNextTurnClickInAnyStatus ==
    /\ ~isLoadingTurn
    /\ sessionRef # 0
    /\ nTurns < MaxTurns
    /\ TriggerNextTurn(sessionRef, isLoadingTurn, Undefined)
    /\ UNCHANGED <<nSessions, chat, propTeam, oppTeam, chatsCreated, initCall,
                   status, topic, uiPropTeam, uiOppTeam, currentSpeaker, sessionRef, setup>>
    /\ UNCHANGED <<segVars, resVars>>

handleNextTurnClick ==
    /\ status = "ongoing"
    /\ ~isLoadingTurn
    /\ sessionRef # 0
    /\ nTurns < MaxTurns
    /\ TriggerNextTurn(sessionRef, isLoadingTurn, Undefined)
    /\ UNCHANGED <<nSessions, chat, propTeam, oppTeam, chatsCreated, initCall,
                   status, topic, uiPropTeam, uiOppTeam, currentSpeaker, sessionRef, setup>>
    /\ UNCHANGED <<segVars, resVars>>

handleInterjection ==
    /\ status = "ongoing"
    /\ ~isLoadingTurn
    /\ nTurns < MaxTurns
    /\ \E text \in Interjections :
          IF Truthy(text) /\ sessionRef # 0
          THEN TriggerNextTurn(sessionRef, isLoadingTurn, text)
          ELSE UNCHANGED <<isLoadingTurn, messages, error, nTurns, turn>>
    /\ UNCHANGED <<nSessions, chat, propTeam, oppTeam, chatsCreated, initCall,
                   status, topic, uiPropTeam, uiOppTeam, currentSpeaker, sessionRef, setup>>
    /\ UNCHANGED <<segVars, resVars>>

\* onClick of the end-debate button
EndDebate ==
    /\ status = "ongoing"
    /\ status' = "idle"
    /\ messages' = <<>>
    /\ uiPropTeam' = Null
    /\ uiOppTeam' = Null
    /\ UNCHANGED <<sessVars, topic, currentSpeaker, error, isLoadingTurn, sessionRef, setup>>
    /\ UNCHANGED <<segVars, resVars>>

\* session.nextTurn settles with `segments`, its result for the backend's
\* response `resp`; triggerNextTurn runs up to its first timer
TurnSettles(t, resp, segments) ==
    /\ turn[t].pc = "awaiting"
    /\ \E tr \in { [turn[t] EXCEPT !.resp = resp, !.segments = segments] } :
          ContinueTurn(t, tr)
    /\ UNCHANGED <<nSessions, chat, propTeam, oppTeam, chatsCreated, initCall, nTurns,
                   status, topic, uiPropTeam, uiOppTeam, sessionRef, setup>>

\* the 2 s timer of the playback loop fires
TimerFires(t) ==
    /\ turn[t].pc = "playing"
    /\ \E tr \in { turn[t] } : ContinueTurn(t, tr)
    /\ UNCHANGED <<nSessions, chat, propTeam, oppTeam, chatsCreated, initCall, nTurns,
                   status, topic, uiPropTeam, uiOppTeam, sessionRef, setup>>

NamelessRoster ==
    [GoodRoster EXCEPT !.proposition.members =
        JArr(<<[t |-> "obj", name |-> JStr(<<"A">>)], EmptyObj>>)]

\* a roster with a member whose name is the empty string
BlankNameRoster ==
    [GoodRoster EXCEPT !.opposition.members =
        JArr(<<[t |-> "obj", name |-> JStr(<<>>)]>>)]

AppSetupResponses ==
    { Reject(m) : m \in BackendErrors } \cup
    { Text(<<>>), Json(GoodRoster), Json(NamelessRoster), Json(BlankNameRoster) }

AppTurnTexts ==
    { SpkTag \o <<" ", "A">>,
      SpkTag \o <<" ", NL, "b">>,
      SpkTag \o <<"A", NL, "b", NL>> \o SpkTag \o <<"b", "o", NL, "b">> }

AppTurnResponses ==
    { Reject(m) : m \in BackendErrors } \cup { Text(x) : x \in AppTurnTexts }

\* the backend's responses, each with what nextTurn returns for it
TurnOutcomes(responses) ==
    { [resp |-> r, segments |-> NextTurnResult(r)] : r \in responses }

AppTurnOutcomes == TurnOutcomes(AppTurnResponses)

-----------------------------------------------------------------------------
(* The segmentation pass as a process *)

SegInit ==
    /\ segText \in RawTexts
    /\ segLines = split(segText)
    /\ segIdx = 0
    /\ segState = SegStart
    /\ segPc = "loop"
    /\ segResult = <<>>

\* one iteration of `for (const line of lines)`
SegLine ==
    /\ segPc = "loop"
    /\ segIdx < Len(segLines)
    /\ segState' = ProcessLine(segState, segLines[segIdx + 1])
    /\ segIdx' = segIdx + 1
    /\ UNCHANGED <<segText, segLines, segPc, segResult>>
    /\ UNCHANGED <<sessVars, appVars, resVars>>

\* the flush() after the loop
SegFinalFlush ==
    /\ segPc = "loop"
    /\ segIdx = Len(segLines)
    /\ segState' = flush(segState)
    /\ segPc' = "flushed"
    /\ UNCHANGED <<segText, segLines, segIdx, segResult>>
    /\ UNCHANGED <<sessVars, appVars, resVars>>

\* the fallback test and the return
SegReturn ==
    /\ segPc = "flushed"
    /\ segResult' = IF Len(segState.segments) = 0
                    THEN <<FallbackSegment(segText)>>
                    ELSE segState.segments
    /\ segPc' = "returned"
    /\ UNCHANGED <<segText, segLines, segIdx, segState>>
    /\ UNCHANGED <<sessVars, appVars, resVars>>

SegIdle ==
    /\ segText = <<>>
    /\ segLines = <<>>
    /\ segIdx = 0
    /\ segState = SegStart
    /\ segPc = "returned"
    /\ segResult = <<>>

-----------------------------------------------------------------------------
(* Speaker resolution as a process: one segment's label resolved against   *)
(* two rosters.                                                            *)

Labels ==
    { <<>>, <<"A">>, <<"a", " ", "B">>, <<"b", "o">>, <<"X">>, ModeratorName }

\* member names as initializeTeams stores them: m.name of the parsed member
RosterNames ==
    { JStr(<<"A">>), JStr(<<"B", "o">>), JStr(<<"a", "b">>), JStr(<<>>), Undefined }

RosterMembers(side) == [name : RosterNames, side : {side}]

\* session.propTeam / session.oppTeam: null, or a team of 1..MaxMembers members
Rosters(side) ==
    {Null} \cup
    { [side |-> side, members |-> ms] :
        ms \in UNION { [1..n -> RosterMembers(side)] : n \in 1..MaxMembers } }

NoResolution == [threw |-> FALSE, side |-> "none", speakerName |-> Null, current |-> Null]

ResInit ==
    /\ resLabel \in Labels
    /\ resProp \in Rosters("proposition")
    /\ resOpp \in Rosters("opposition")
    /\ resPc = "start"
    /\ resOut = NoResolution

\* the resolution of one segment in the loop of triggerNextTurn
ResolveSegment ==
    /\ resPc = "start"
    /\ resOut' = Resolve(resLabel, resProp, resOpp)
    /\ resPc' = "done"
    /\ UNCHANGED <<resLabel, resProp, resOpp>>
    /\ UNCHANGED <<segVars, sessVars, appVars>>

ResIdle ==
    /\ resLabel = <<>>
    /\ resProp = Null
    /\ resOpp = Null
    /\ resPc = "done"
    /\ resOut = NoResolution

ResNext == ResolveSegment

ResSpecInit == ResInit /\ SegIdle /\ SessIdle /\ AppIdle

ResSpec == ResSpecInit /\ [][ResNext]_vars

SegNext == SegLine \/ SegFinalFlush \/ SegReturn

SegSpecInit == SegInit /\ SessIdle /\ AppIdle /\ ResIdle

SegSpec == SegSpecInit /\ [][SegNext]_vars

TeamsNext == TeamsSettle

TeamsSpecInit == TeamsInit /\ SegIdle /\ AppIdle /\ ResIdle

TeamsSpec == TeamsSpecInit /\ [][TeamsNext]_vars

SessionNext ==
    CallerInitializeTeams \/ CallerSetupSettles \/ CallerNextTurn \/ CallerTurnSettles

SessionSpecInit == CallerInit /\ SegIdle /\ AppIdle /\ ResIdle

SessionSpec == SessionSpecInit /\ [][SessionNext]_vars

Init == SegIdle /\ SessIdle /\ AppIdle /\ ResIdle

SetupRespondsFrom(responses) ==
    /\ \E resp \in responses : SetupSettles(resp)
    /\ UNCHANGED <<segVars, resVars>>

TurnRespondsFrom(t, outcomes) ==
    /\ \E o \in outcomes : TurnSettles(t, o.resp, o.segments)
    /\ UNCHANGED <<segVars, resVars>>

SetupResponds == SetupRespondsFrom(AppSetupResponses)

TurnResponds(t) == TurnRespondsFrom(t, AppTurnOutcomes)

PlaybackTimer(t) ==
    /\ TimerFires(t)
    /\ UNCHANGED <<segVars, resVars>>

Next ==
    \/ SetTopic
    \/ handleStartSetup
    \/ SetupResponds
    \/ handleNextTurnClick
    \/ handleInterjection
    \/ EndDebate
    \/ \E t \in 1..MaxTurns : TurnResponds(t)
    \/ \E t \in 1..MaxTurns : PlaybackTimer(t)

Spec == Init /\ [][Next]_vars

\* The App again, with the backend's answers drawn from fewer values, for
\* the checks of what eventually happens.
FairSetupResponses == { Text(<<>>), Json(GoodRoster), Json(NamelessRoster) }
FairTurnResponses ==
    { Reject(m) : m \in BackendErrors } \cup { Text(SpkTag \o <<"A", NL, "b">>) }

FairSetupResponds == SetupRespondsFrom(FairSetupResponses)
FairTurnOutcomes == TurnOutcomes(FairTurnResponses)

FairTurnResponds(t) == TurnRespondsFrom(t, FairTurnOutcomes)

FairNext ==
    \/ SetTopic
    \/ handleStartSetup
    \/ FairSetupResponds
    \/ handleNextTurnClick
    \/ handleInterjection
    \/ EndDebate
    \/ \E t \in 1..MaxTurns : FairTurnResponds(t)
    \/ \E t \in 1..MaxTurns : PlaybackTimer(t)

\* A settled promise's continuation and a due timer's callback are run by
\* the event loop.
FairSpec ==
    /\ Init /\ [][FairNext]_vars
    /\ WF_vars(\E t \in 1..MaxTurns : FairTurnResponds(t))
    /\ WF_vars(\E t \in 1..MaxTurns : PlaybackTimer(t))

-----------------------------------------------------------------------------
(* Properties *)

InFlight(s) == { t \in 1..MaxTurns : turn[t].session = s /\ turn[t].pc = "awaiting" }

\* C1: a session never has two nextTurn calls that have not returned: the
\* second call is refused by nextTurn itself and sends nothing.
C1_AtMostOneNextTurnInFlight ==
    \A s \in 1..MaxSessions : Cardinality(InFlight(s)) <= 1

ModelPositions(t) ==
    { i \in 1..Len(messages) : messages[i].role = "model" /\ messages[i].turn = t }

\* C2: the segments of one turn appear in the message list in the order
\* nextTurn returned them, and no message of another turn lies between the
\* first and the last of them.
C2_TurnSegmentsInOrderAndContiguous ==
    \A t \in 1..MaxTurns : \A i, j \in ModelPositions(t) :
        i < j =>
            /\ messages[i].seg < messages[j].seg
            /\ messages[i].content = turn[t].segments[messages[i].seg].content
            /\ messages[j].content = turn[t].segments[messages[j].seg].content
            /\ \A k \in i..j : messages[k].turn = t

\* C3: a nextTurn call that got past the not-initialized guard never throws,
\* and when its send failed it returns exactly one segment, of type
\* moderator, whose content embeds the failure's message.
C3_SendFailureIsOneModeratorSegment ==
    \A t \in 1..MaxTurns :
        /\ turn[t].sentOn # 0 => turn[t].pc \in {"awaiting", "returned"}
        /\ (turn[t].pc = "returned" /\ turn[t].resp.kind = "reject") =>
              /\ Len(turn[t].segments) = 1
              /\ turn[t].segments[1].type = "moderator"
              /\ includes(turn[t].segments[1].content, turn[t].resp.message)

C3_Witness ==
    \E t \in 1..MaxTurns : turn[t].pc = "returned" /\ turn[t].resp.kind = "reject"

\* C4: a nextTurn call made on a session whose initializeTeams was never
\* called is rejected with the not-initialized error and sends no message.
C4_NextTurnBeforeInitializeIsRejected ==
    [][\A t \in 1..MaxTurns :
          (turn[t].pc = "none" /\ turn'[t].pc # "none"
              /\ initCall[turn'[t].session].pc = "none") =>
          /\ turn'[t].pc = "threw"
          /\ turn'[t].error = ChatNotInitializedError
          /\ turn'[t].sentOn = 0]_vars

C4_Witness ==
    \E t \in 1..MaxTurns :
        /\ turn[t].pc = "threw"
        /\ initCall[turn[t].session].pc = "none"

\* C5: every turn that set isLoadingTurn eventually reaches the end of
\* triggerNextTurn, and the step that ends a turn sets isLoadingTurn to
\* false, whether the turn played out, soft-failed or threw.
C5_GuardReleasedOnEveryPath ==
    /\ \A t \in 1..MaxTurns :
          (turn[t].pc \in {"awaiting", "playing"}) ~> (turn[t].pc = "done")
    /\ [][\A t \in 1..MaxTurns :
             (turn[t].pc # "done" /\ turn'[t].pc = "done") => isLoadingTurn' = FALSE]_vars

C5_Witness ==
    /\ ~isLoadingTurn
    /\ \E t \in 1..MaxTurns :
          turn[t].pc = "done" /\ turn[t].error = TypeError
    /\ \E t \in 1..MaxTurns :
          turn[t].pc = "done" /\ turn[t].resp.kind = "reject" /\ turn[t].error = <<>>
    /\ \E t \in 1..MaxTurns :
          turn[t].pc = "done" /\ turn[t].resp.kind = "text" /\ turn[t].error = <<>>

SetupFailedOnText(s) ==
    /\ initCall[s].pc = "threw"
    /\ initCall[s].resp.kind \in {"undefinedText", "text"}

\* C6: after initializeTeams failed on an empty or unparseable text the
\* session has no teams, and a nextTurn call on it is rejected without
\* sending a message.
C6_FailedSetupLeavesSessionUninitialized ==
    [][\A t \in 1..MaxTurns :
          (turn[t].pc = "none" /\ turn'[t].pc # "none"
              /\ SetupFailedOnText(turn'[t].session)) =>
          /\ propTeam[turn'[t].session] = Null
          /\ oppTeam[turn'[t].session] = Null
          /\ turn'[t].pc = "threw"
          /\ turn'[t].sentOn = 0]_vars

Settled == initCall[1].pc \in {"returned", "threw"}
SetupResp == initCall[1].resp

IsConfigurationError(e) == e \in {NoResponseError, ParseError}

\* the response text parses to an object holding a proposition and an
\* opposition team object
ExpectedShape(resp) ==
    /\ resp.kind = "json"
    /\ resp.data.t = "obj"
    /\ Get(resp.data, "proposition").t = "obj"
    /\ Get(resp.data, "opposition").t = "obj"

\* C7 as stated: every response text that is not of the expected shape
\* makes initializeTeams fail with a configuration error.
C7_EveryOtherShapeIsConfigurationError ==
    (Settled /\ SetupResp.kind # "reject" /\ ~ExpectedShape(SetupResp)) =>
        /\ initCall[1].pc = "threw"
        /\ IsConfigurationError(initCall[1].error)

SideValue(resp, side) == Get(resp.data, side)

IsPlaceholderTeam(team, placeholder) ==
    /\ Len(team.members) = 1
    /\ team.members[1].name = JStr(placeholder)

\* C7 as amended: empty text and text that is not JSON fail with a
\* configuration error; valid JSON of another shape never does: null fails
\* with a TypeError, and for any other value the call either returns, a side
\* that is not an object getting the one placeholder member, or fails with a
\* TypeError.
C7_OnlyEmptyOrNonJsonIsConfigurationError ==
    Settled =>
        /\ (SetupResp.kind = "undefinedText"
              \/ (SetupResp.kind = "text" /\ SetupResp.text = <<>>)) =>
                 (initCall[1].pc = "threw" /\ initCall[1].error = NoResponseError)
        /\ (SetupResp.kind = "text" /\ SetupResp.text # <<>>) =>
                 (initCall[1].pc = "threw" /\ initCall[1].error = ParseError)
        /\ (SetupResp.kind = "json" /\ ~ExpectedShape(SetupResp)) =>
              /\ ~IsConfigurationError(initCall[1].error)
              /\ IsNullish(SetupResp.data) =>
                    (initCall[1].pc = "threw" /\ initCall[1].error = TypeError)
              /\ initCall[1].pc = "threw" => initCall[1].error = TypeError
              /\ initCall[1].pc = "returned" =>
                    /\ SideValue(SetupResp, "proposition").t # "obj" =>
                          IsPlaceholderTeam(propTeam[1], PropPlaceholder)
                    /\ SideValue(SetupResp, "opposition").t # "obj" =>
                          IsPlaceholderTeam(oppTeam[1], OppPlaceholder)

C7_Witness ==
    /\ initCall[1].pc = "returned"
    /\ SetupResp.kind = "json"
    /\ SetupResp.data.t = "arr"
    /\ IsPlaceholderTeam(propTeam[1], PropPlaceholder)

\* the member list of a side as parsed, <<>> when it is missing
ParsedMembers(resp, side) ==
    LET m == Get(SideValue(resp, side), "members")
    IN  IF m.t = "arr" THEN m.items ELSE <<>>

TeamMatchesParsed(team, parsed, placeholder) ==
    /\ team # Null
    /\ Len(team.members) >= 1
    /\ parsed = <<>> => IsPlaceholderTeam(team, placeholder)
    /\ parsed # <<>> =>
          /\ Len(team.members) = Len(parsed)
          /\ \A i \in 1..Len(parsed) : team.members[i].name = Get(parsed[i], "name")

\* C8: when initializeTeams returns, both teams are set with at least one
\* member: the one placeholder for a missing or empty list, otherwise the
\* returned members in the returned order.
C8_ReturnedTeamsHaveMembers ==
    initCall[1].pc = "returned" =>
        /\ TeamMatchesParsed(propTeam[1], ParsedMembers(SetupResp, "proposition"), PropPlaceholder)
        /\ TeamMatchesParsed(oppTeam[1], ParsedMembers(SetupResp, "opposition"), OppPlaceholder)

C8_Witness ==
    /\ initCall[1].pc = "returned"
    /\ ExpectedShape(SetupResp)
    /\ ParsedMembers(SetupResp, "proposition") = <<>>
    /\ Len(ParsedMembers(SetupResp, "opposition")) = 2
    /\ oppTeam[1].members[1].name # oppTeam[1].members[2].name

\* C9: every segment the segmentation pass emits has non-empty trimmed
\* content.
C9_NoEmptySegmentEmitted ==
    \A i \in 1..Len(segState.segments) : trim(segState.segments[i].content) # <<>>

\* C10: nextTurn returns at least one segment, and when the pass emitted
\* none it returns one moderator segment holding the full raw text.
C10_FallbackIsWholeRawText ==
    segPc = "returned" =>
        /\ Len(segResult) >= 1
        /\ Len(segState.segments) = 0 =>
              /\ Len(segResult) = 1
              /\ segResult[1].type = "moderator"
              /\ segResult[1].content = segText

C10_Witness ==
    /\ segPc = "returned"
    /\ Len(segState.segments) = 0
    /\ segText # trim(segText)

\* the line begins, at column 0, with the letters of `tag` in any case
HasPrefixAnyCase(line, tag) ==
    /\ Len(line) >= Len(tag)
    /\ \A i \in 1..Len(tag) : LowerChar(line[i]) = LowerChar(tag[i])

IsModeratorTagLine(line) == HasPrefixAnyCase(line, ModTag)
IsSpeakerTagLine(line) == HasPrefixAnyCase(line, SpkTag)
IsTagLine(line) == IsModeratorTagLine(line) \/ IsSpeakerTagLine(line)

\* C11: for a raw text none of whose lines is a tag line, the segmenter
\* returns exactly one segment, of type moderator, whose content is the
\* trimmed full text.
C11_UntaggedTextIsOneTrimmedModeratorSegment ==
    (segPc = "returned" /\ \A i \in 1..Len(segLines) : ~IsTagLine(segLines[i])) =>
        /\ Len(segState.segments) = 1
        /\ Len(segResult) = 1
        /\ segResult[1].type = "moderator"
        /\ segResult[1].content = trim(segText)

C11_Witness ==
    /\ segPc = "returned"
    /\ \A i \in 1..Len(segLines) : ~IsTagLine(segLines[i])
    /\ Len(segLines) >= 2
    /\ trim(segText) # segText
    /\ trim(segText) # <<>>

\* C12: for a raw text whose tag lines are all MODERATOR: lines, every
\* segment emitted, and every segment returned, has type moderator.
C12_ModeratorOnlyTextGivesModeratorSegments ==
    (\A i \in 1..Len(segLines) : ~IsSpeakerTagLine(segLines[i])) =>
        /\ \A k \in 1..Len(segState.segments) : segState.segments[k].type = "moderator"
        /\ \A k \in 1..Len(segResult) : segResult[k].type = "moderator"

C12_Witness ==
    /\ segPc = "returned"
    /\ \A i \in 1..Len(segLines) : ~IsSpeakerTagLine(segLines[i])
    /\ Len(segResult) >= 2
    /\ \E i \in 2..Len(segLines) : IsModeratorTagLine(segLines[i])

\* The input read as blocks: a block starts at line 1 and at every tag line
\* and runs up to the line before the next tag line.
BlockStarts(ls) == {1} \cup { i \in 1..Len(ls) : IsTagLine(ls[i]) }

BlockEnd(ls, b) ==
    LET later == { i \in BlockStarts(ls) : i > b }
    IN  IF later = {} THEN Len(ls)
        ELSE (CHOOSE i \in later : \A j \in later : i <= j) - 1

\* the text after the tag of a tag line, trimmed
InlineText(line, tag) == trim(SubSeq(line, Len(tag) + 1, Len(line)))

\* the first line of block b that contributes content: the tag line itself
\* only for a MODERATOR: tag with inline text
FirstContentLine(ls, b) ==
    IF IsSpeakerTagLine(ls[b]) THEN b + 1
    ELSE IF IsModeratorTagLine(ls[b]) /\ InlineText(ls[b], ModTag) = <<>> THEN b + 1
    ELSE b

ContentLines(ls, b) == FirstContentLine(ls, b)..BlockEnd(ls, b)

\* what line i contributes to the content of its block
LineText(ls, i) ==
    IF IsModeratorTagLine(ls[i]) THEN InlineText(ls[i], ModTag) ELSE ls[i]

BlockContent(ls, b) ==
    LET a == FirstContentLine(ls, b)
    IN  trim(join([i \in 1..(BlockEnd(ls, b) - a + 1) |-> LineText(ls, a + i - 1)]))

EmittingBlocks(ls) == { b \in BlockStarts(ls) : ContentLines(ls, b) # {} }

\* the k-th block, in input order, that has content lines
KthEmittingBlock(ls, k) ==
    CHOOSE b \in EmittingBlocks(ls) :
        Cardinality({ c \in EmittingBlocks(ls) : c < b }) = k - 1

\* C13: the emitted segments are those of the blocks that have content
\* lines, in the order of the blocks in the input: the k-th segment holds
\* the lines of the k-th such block, so every line of an earlier segment
\* precedes every line of a later one.
C13_SegmentsFollowInputOrder ==
    segPc \in {"flushed", "returned"} =>
        /\ Len(segState.segments) = Cardinality(EmittingBlocks(segLines))
        /\ \A k \in 1..Len(segState.segments) :
              segState.segments[k].content =
                  BlockContent(segLines, KthEmittingBlock(segLines, k))
        /\ \A j, k \in 1..Len(segState.segments) :
              j < k =>
                \A x \in ContentLines(segLines, KthEmittingBlock(segLines, j)),
                   y \in ContentLines(segLines, KthEmittingBlock(segLines, k)) : x < y

C13_Witness ==
    /\ segPc = "returned"
    /\ Len(segState.segments) = 2
    /\ segState.segments[1].content # segState.segments[2].content
    /\ Len(segLines) = 3
    /\ IsTagLine(segLines[2])

\* C14: the segment of a block that starts with a SPEAKER: tag line is a
\* debater segment whose speaker is the trimmed text after the tag and whose
\* content is made of the lines strictly after the tag line, up to the next
\* tag line; no other segment is a debater segment.
C14_SpeakerTagStartsDebaterSegment ==
    segPc \in {"flushed", "returned"} =>
        \A k \in 1..Len(segState.segments) :
            LET b   == KthEmittingBlock(segLines, k)
                seg == segState.segments[k]
            IN  IF IsSpeakerTagLine(segLines[b])
                THEN /\ seg.type = "debater"
                     /\ seg.speaker = InlineText(segLines[b], SpkTag)
                     /\ seg.content =
                           trim(join(SubSeq(segLines, b + 1, BlockEnd(segLines, b))))
                ELSE seg.type = "moderator"

C14_Witness ==
    /\ segPc = "returned"
    /\ Len(segState.segments) = 2
    /\ segState.segments[2].type = "debater"
    /\ segState.segments[2].speaker = <<"A">>
    /\ segLines[2] = SpkTag \o <<" ", "A", " ">>
    /\ segState.segments[2].content = <<"b">>

\* C15: a line is handled as a tag exactly when it begins at column 0 with
\* MODERATOR: or SPEAKER: in any letter case; any other line, one with
\* whitespace before the prefix or without the colon included, is appended
\* to the current content and changes nothing else.
C15_OnlyAnchoredPrefixIsTag ==
    [][segIdx' = segIdx + 1 =>
          LET line == segLines[segIdx + 1]
          IN  IF IsTagLine(line)
              THEN /\ segState'.currentContent \in {<<>>, <<InlineText(line, ModTag)>>}
                   /\ segState'.currentSpeaker =
                         IF IsModeratorTagLine(line) THEN ModeratorName
                         ELSE InlineText(line, SpkTag)
              ELSE segState' = [segState EXCEPT !.currentContent = Append(@, line)]]_vars

C15_Witness ==
    /\ segPc = "loop"
    /\ segIdx = 3
    /\ segLines[1] = toLowerCase(ModTag) \o <<"b">>
    /\ segLines[2] = <<" ">> \o SpkTag \o <<" ", "A", " ">>
    /\ segLines[3] = SubSeq(ModTag, 1, Len(ModTag) - 1) \o <<"b">>
    /\ segState.currentContent = <<<<"b">>, segLines[2], segLines[3]>>
    /\ segState.segments = <<>>

\* The reference resolver.  Whitespace removed, then lowercased.
RefNormalize(str) == toLowerCase(SelectSeq(str, LAMBDA c : ~IsSpace(c)))

\* b is a substring of a
Contains(a, b) ==
    \E i \in 1..(Len(a) + 1) : \E j \in (i - 1)..Len(a) : SubSeq(a, i, j) = b

RefQualifies(name, label) ==
    \/ Contains(RefNormalize(label), RefNormalize(name))
    \/ Contains(RefNormalize(name), RefNormalize(label))

AllNamed(team) ==
    team # Null => \A i \in 1..Len(team.members) : team.members[i].name.t = "str"

\* the roster position of the first qualifying member, 0 if there is none
RefFirst(team, label) ==
    IF team = Null THEN 0
    ELSE LET q == { i \in 1..Len(team.members) :
                      /\ team.members[i].name.t = "str"
                      /\ RefQualifies(team.members[i].name.s, label) }
         IN  IF q = {} THEN 0 ELSE CHOOSE i \in q : \A j \in q : i <= j

RefSide(label, prop, opp) ==
    IF RefFirst(prop, label) # 0 THEN "proposition"
    ELSE IF RefFirst(opp, label) # 0 THEN "opposition"
    ELSE "moderator"

\* the member the reference attributes the label to (for a side that is not
\* moderator)
RefMember(label, prop, opp) ==
    IF RefFirst(prop, label) # 0 THEN prop.members[RefFirst(prop, label)]
    ELSE opp.members[RefFirst(opp, label)]

\* C16: on rosters whose member names are all strings, the resolver gives
\* the side and the member of the reference: the first qualifying
\* proposition member, else the first qualifying opposition member, else
\* none.
C16_ResolverEqualsReference ==
    (resPc = "done" /\ resOut # NoResolution /\ AllNamed(resProp) /\ AllNamed(resOpp)) =>
        /\ ~resOut.threw
        /\ resOut.side = RefSide(resLabel, resProp, resOpp)
        /\ resOut.side # "moderator" =>
              resOut.speakerName = RefMember(resLabel, resProp, resOpp).name

C16_Witness ==
    /\ resPc = "done"
    /\ resOut # NoResolution
    /\ AllNamed(resProp) /\ AllNamed(resOpp)
    /\ RefFirst(resProp, resLabel) = 2
    /\ RefFirst(resOpp, resLabel) = 1
    /\ resOut.side = "proposition"
    /\ resOut.speakerName = resProp.members[2].name
    /\ resOut.speakerName.s # resLabel

\* no member of either roster of session s qualifies for the label
NoneQualifies(label, s) ==
    /\ RefFirst(propTeam[s], label) = 0
    /\ RefFirst(oppTeam[s], label) = 0

\* turn t takes a step at which it has a next segment to deliver
DeliveryStep(t) ==
    /\ turn[t].pc \in {"awaiting", "playing"}
    /\ turn'[t] # turn[t]
    /\ turn[t].idx < Len(turn'[t].segments)

NextSegment(t) == turn'[t].segments[turn[t].idx + 1]

\* C17: a segment for whose label no member of either roster qualifies is
\* delivered as a moderator message under the label the model wrote, no
\* error is raised and the turn goes on to its remaining segments.
C17_UnmatchedLabelDegradesToModerator ==
    [][\A t \in 1..MaxTurns :
          (DeliveryStep(t) /\ NoneQualifies(NextSegment(t).speaker, turn[t].session)) =>
              /\ turn'[t].pc = "playing"
              /\ turn'[t].idx = turn[t].idx + 1
              /\ error' = error
              /\ Len(messages') = Len(messages) + 1
              /\ messages'[Len(messages')].speakerSide = "moderator"
              /\ messages'[Len(messages')].speakerName = JStr(NextSegment(t).speaker)
              /\ messages'[Len(messages')].content = NextSegment(t).content]_vars

\* the member the reference attributes the next segment of turn t to
MatchedMember(t) ==
    RefMember(NextSegment(t).speaker, propTeam[turn[t].session], oppTeam[turn[t].session])

C19_NoTurnActiveMeansNoCurrentSpeaker ==
    (\A t \in 1..MaxTurns : turn[t].pc \notin {"awaiting", "playing"}) =>
        currentSpeaker = Null

\* the step in which the initializeTeams call of the pending setup throws
SetupFailsStep ==
    /\ setup.pc = "awaiting"
    /\ initCall[setup.session].pc = "awaiting"
    /\ initCall'[setup.session].pc = "threw"

\* C20: when initializeTeams throws during setup, the App goes back to
\* status idle with the setup error set, appends no message and starts no
\* turn; no turn is ever started on a session whose setup failed, a failed
\* initializeTeams call is never made again, and a new session is only
\* constructed by a start from status idle with a non-blank topic.
C20_FailedSetupStopsThePipeline ==
    [][/\ SetupFailsStep =>
            /\ status' = "idle"
            /\ error' = SetupFailedError
            /\ messages' = messages
            /\ nTurns' = nTurns
            /\ turn' = turn
            /\ setup'.pc = "none"
            /\ nSessions' = nSessions
       /\ \A t \in 1..MaxTurns :
            (turn[t].pc = "none" /\ turn'[t].pc # "none") =>
                initCall'[turn'[t].session].pc = "returned"
       /\ \A s \in 1..MaxSessions :
            initCall[s].pc = "threw" => initCall'[s] = initCall[s] /\ chat'[s] = chat[s]
       /\ nSessions' # nSessions =>
            /\ status = "idle"
            /\ trim(topic) # <<>>
            /\ setup.pc = "none"
            /\ status' = "setting_up"]_vars

C20_Witness ==
    /\ status = "idle"
    /\ error = SetupFailedError
    /\ setup.pc = "none"
    /\ sessionRef # 0
    /\ initCall[sessionRef].pc = "threw"
    /\ \A t \in 1..MaxTurns : turn[t].pc # "none" => turn[t].session # sessionRef

\* the last tag line among the first i lines, 0 when there is none
LastTagLine(ls, i) ==
    LET tags == { j \in 1..i : IsTagLine(ls[j]) }
    IN  IF tags = {} THEN 0 ELSE CHOOSE j \in tags : \A h \in tags : h <= j

\* the speaker label and type that the nearest tag line at or before line i
\* gives, the moderator default when no tag line precedes
Attribution(ls, i) ==
    LET j == LastTagLine(ls, i)
    IN  IF j = 0 \/ IsModeratorTagLine(ls[j])
        THEN [speaker |-> ModeratorName, type |-> "moderator"]
        ELSE [speaker |-> InlineText(ls[j], SpkTag), type |-> "debater"]

\* C21: after any number of lines the segmenter's current speaker and type
\* are those of the last tag line processed (the moderator default when
\* there was none), so a non-tag line leaves them unchanged, and every
\* emitted segment carries the speaker and type of the nearest tag line at
\* or before its content lines.
C21_StateFollowsNearestTagLine ==
    /\ segState.currentSpeaker = Attribution(segLines, segIdx).speaker
    /\ segState.currentType = Attribution(segLines, segIdx).type
    /\ segPc \in {"flushed", "returned"} =>
          \A k \in 1..Len(segState.segments) :
              \A i \in ContentLines(segLines, KthEmittingBlock(segLines, k)) :
                  /\ segState.segments[k].speaker = Attribution(segLines, i).speaker
                  /\ segState.segments[k].type = Attribution(segLines, i).type

C21_Witness ==
    /\ segPc = "returned"
    /\ Len(segLines) = 3
    /\ IsSpeakerTagLine(segLines[1])
    /\ ~IsTagLine(segLines[2])
    /\ ~IsTagLine(segLines[3])
    /\ Len(segState.segments) = 1
    /\ segState.segments[1].type = "debater"
    /\ segState.segments[1].speaker = <<"A">>
    /\ segState.currentSpeaker = <<"A">>

\* C22: processing a MODERATOR: tag line first emits the segment accumulated
\* so far (its content the lines accumulated before the tag line, nothing
\* of the tag line), then starts a moderator segment whose only content
\* line so far is the non-blank inline text, and which has no content line
\* when the inline text is blank.
C22_ModeratorTagFlushesThenStarts ==
    [][(segIdx' = segIdx + 1 /\ IsModeratorTagLine(segLines[segIdx + 1])) =>
          LET line == segLines[segIdx + 1]
              acc  == segState.currentContent
          IN  /\ segState'.segments =
                    IF acc = <<>> THEN segState.segments
                    ELSE segState.segments \o
                           <<[speaker |-> segState.currentSpeaker,
                              content |-> trim(join(acc)),
                              type    |-> segState.currentType]>>
              /\ segState'.currentType = "moderator"
              /\ segState'.currentSpeaker = ModeratorName
              /\ segState'.currentContent =
                    IF InlineText(line, ModTag) = <<>> THEN <<>>
                    ELSE <<InlineText(line, ModTag)>>]_vars

C22_Witness ==
    /\ segPc = "loop"
    /\ segIdx = 2
    /\ ~IsTagLine(segLines[1])
    /\ segLines[2] = ModTag \o <<" ", "A", " ">>
    /\ Len(segState.segments) = 1
    /\ segState.segments[1].content = <<"b">>
    /\ segState.currentContent = << <<"A">> >>

\* C23: a step of nextTurn, its call or its return, on success and on a
\* failed send alike, leaves the chat and both teams of every session
\* unchanged, and every turn that was sent was sent on the chat that
\* initializeTeams created for its session.
C23_NextTurnKeepsChatAndTeams ==
    [][/\ turn' # turn =>
            /\ chat' = chat
            /\ propTeam' = propTeam
            /\ oppTeam' = oppTeam
            /\ chatsCreated' = chatsCreated
       /\ \A t \in 1..MaxTurns :
            turn'[t].sentOn # 0 =>
                /\ turn'[t].sentOn = chat'[turn'[t].session]
                /\ initCall'[turn'[t].session].pc # "none"]_vars

C23_Witness ==
    /\ initCall[1].pc = "returned"
    /\ propTeam[1] # Null
    /\ oppTeam[1] # Null
    /\ \E t, u \in 1..MaxTurns :
          /\ t < u
          /\ turn[t].pc = "returned"
          /\ turn[t].resp.kind = "reject"
          /\ turn[u].pc = "returned"
          /\ turn[u].resp.kind = "text"
          /\ turn[t].sentOn = chat[1]
          /\ turn[u].sentOn = chat[1]

\* the step in which the initializeTeams call of the pending setup returns
SetupSucceedsStep ==
    /\ setup.pc = "awaiting"
    /\ initCall[setup.session].pc = "awaiting"
    /\ initCall'[setup.session].pc = "returned"

\* C24: in the step in which initializeTeams returns the teams to
\* handleStartSetup, a nextTurn request is issued on the new session.
C24_FirstTurnFollowsSetup ==
    [][SetupSucceedsStep =>
          /\ status' = "ongoing"
          /\ nTurns' = nTurns + 1
          /\ turn'[nTurns'].session = setup.session
          /\ turn'[nTurns'].pc = "awaiting"
          /\ turn'[nTurns'].sentOn = chat[setup.session]]_vars

\* C25: while no debate is set up or running the message list is empty, and
\* during a setup or a debate every message of the list comes from a turn
\* of the current session.
C25_NoMessageFromEndedDebate ==
    /\ status = "idle" => messages = <<>>
    /\ status # "idle" =>
          \A i \in 1..Len(messages) : turn[messages[i].turn].session = sessionRef

\* C26: a segment of type moderator is never appended as a message of side
\* proposition or opposition.
C26_ModeratorSegmentKeepsModeratorSide ==
    \A i \in 1..Len(messages) :
        (messages[i].role = "model" /\
         turn[messages[i].turn].segments[messages[i].seg].type = "moderator") =>
            messages[i].speakerSide = "moderator"

\* C27: a debater segment whose label is empty after normalization is
\* appended as a message of side moderator.
C27_EmptyLabelIsUnattributed ==
    \A i \in 1..Len(messages) :
        (/\ messages[i].role = "model"
         /\ turn[messages[i].turn].segments[messages[i].seg].type = "debater"
         /\ Normalize(turn[messages[i].turn].segments[messages[i].seg].speaker) = <<>>) =>
            messages[i].speakerSide = "moderator"

\* C28: every nextTurn request of the App, the automatic first turn, a
\* next-turn click or an interjection, is made on a session whose
\* initializeTeams has returned and whose two teams are set, so none is
\* refused by the chat-not-initialized guard.
C28_TurnsOnlyOnInitializedSessions ==
    \A t \in 1..MaxTurns :
        turn[t].pc # "none" =>
            /\ initCall[turn[t].session].pc = "returned"
            /\ propTeam[turn[t].session] # Null
            /\ oppTeam[turn[t].session] # Null
            /\ turn[t].sentOn = chat[turn[t].session]
            /\ turn[t].error # ChatNotInitializedError

C28_Witness ==
    /\ nSessions = 2
    /\ \E t, u, v \in 1..MaxTurns :
          /\ turn[t].session = 1 /\ turn[t].pc # "none" /\ turn[t].userInput = Undefined
          /\ turn[u].session = 1 /\ Truthy(turn[u].userInput)
          /\ turn[v].session = 2 /\ turn[v].pc # "none"

====
